---- MODULE Spec2Model ----
(***************************************************************************)
(* kungfuters.StateMachinePlus (src/StateMachinePlus.js): a phase state    *)
(* machine layered on the shared state of a hangout.  Every participant    *)
(* runs one instance; the transport applies submitted deltas to the shared *)
(* state and notifies the registered listeners, possibly more than once    *)
(* and out of order.                                                       *)
(***************************************************************************)
EXTENDS Naturals, Sequences, FiniteSets, Bags, TLC

VARIABLES
    localPhase,      \* [participant -> phase]              this.localPhase
    transitions,     \* [participant -> [phase -> Seq]]     this.transitions
    setupComplete,   \* [participant -> BOOLEAN]            this._setupComplete
    listeners,       \* [participant -> Nat]  state-change listeners registered
    setupCalls,      \* [participant -> Nat]  times this.setup() has run
    scope,           \* [participant -> set of phases with a method in this.scope]
    shared,          \* value of the "phase" entry of the shared state
    inbox,           \* [participant -> bag of notifications in flight to it]
    registered,      \* [participant -> set of <<from, to>> passed to addTransition]
    last,            \* [participant -> record of the last call on the instance]
    prev,            \* [participant -> record of the call before it, kept when
                     \*  the last call delivered the same notification again]
    fastForwarded,   \* [participant -> BOOLEAN] localPhase was last assigned by
                     \*  the fast-forward of begin
    run,             \* [participant -> how far its calls, with no other write
                     \*  to the shared state, follow begin, notification,
                     \*  nextPhase, notification, same notification]
    race             \* in a session of several participants: the writes of one
                     \*  phase made since all trackers were equal and nothing
                     \*  was in flight, and the handler invocations since

vars == <<localPhase, transitions, setupComplete, listeners, setupCalls, scope,
          shared, inbox, registered, last, prev, fastForwarded, run, race>>

----------------------------------------------------------------------------
\* Bounds of the model.

\* Notifications in flight to one participant.  Other code may write any phase
\* at any time and a delivered notification may be delivered again, so every
\* sequence of notifications reaches the listener with one in flight.
MaxInbox == 1

\* Entries of a transition table built by direct addTransition calls.
MaxAdds == 3

\* Notifications in flight to one participant of a session of several, where
\* every notification is delivered once: room for the writes of two racing
\* participants.
MaxRaceInbox == 2

----------------------------------------------------------------------------
\* Values.
INITIAL_PHASE == "ksmp_initial_phase"

phaseKey == "phase"

OtherKey == "other"

\* JavaScript's undefined (an absent entry, an omitted argument).
Undefined == "undefined"

EmptyString == ""

NamedPhases == {"lobby", "play", "score"}

Phases == NamedPhases \cup {INITIAL_PHASE}

\* What state.phase can hold.
PhaseValues == Phases \cup {Undefined, EmptyString}

\* The `adds` array of a notification, by the keys of its entries.
AddsKinds == { <<OtherKey>>, <<phaseKey>>, <<OtherKey, phaseKey>> }

\* Outcomes of a call.
NoError == "none"

ErrFirstPhase == "Must pass a firstPhase to StateMachinePlus.begin(firstPhase)"

ErrUndefinedPhaseFunction == "Undefined phase function"

ErrTypeError == "TypeError"

EmptyTable == [k \in {} |-> <<>>]

----------------------------------------------------------------------------
\* Transition table.

\* list = this.transitions[from] (or []); list.push(to); this.transitions[from] = list
PushTransition(T, from, to) ==
    LET list == IF from \in DOMAIN T THEN T[from] ELSE <<>>
    IN  [k \in DOMAIN T \cup {from} |-> IF k = from THEN Append(list, to) ELSE T[k]]

\* addTransition without the registration of (INITIAL_PHASE, from).
addTransition_noClosure(T, from, to) == PushTransition(T, from, to)

RECURSIVE addTransition(_, _, _)
addTransition(T, from, to) ==
    LET T1 == PushTransition(T, from, to)
    IN  IF from # INITIAL_PHASE
        THEN addTransition(T1, INITIAL_PHASE, from)
        ELSE T1

\* A loop over validTransitions that stops at the first entry that differs from
\* the target.
ScanTransitions_stopAtMismatch(list, to, i) ==
    i <= Len(list) /\ list[i] = to

\* The loop of _validateTransition over validTransitions, from index i (1-based).
RECURSIVE ScanTransitions(_, _, _)
ScanTransitions(list, to, i) ==
    IF i > Len(list) THEN FALSE
    ELSE IF list[i] = to THEN TRUE
    ELSE ScanTransitions(list, to, i + 1)

\* _validateTransition with a loop that stops after the first entry.
validateTransition_firstOnly(T, from, to) ==
    IF from \notin DOMAIN T THEN "throw"
    ELSE IF Len(T[from]) > 0 /\ T[from][1] = to THEN "true"
    ELSE "false"

\* _validateTransition: "true", "false", or "throw" when this.transitions[from]
\* is undefined and its length is read.
validateTransition(T, from, to) ==
    IF from \notin DOMAIN T THEN "throw"
    ELSE IF ScanTransitions(T[from], to, 1) THEN "true"
    ELSE "false"

\* A setup() hook is a sequence of addTransition calls.
RECURSIVE RunSetup(_, _)
RunSetup(T, prog) ==
    IF prog = <<>> THEN T
    ELSE RunSetup(addTransition(T, Head(prog)[1], Head(prog)[2]), Tail(prog))

\* The setup() hooks of the model: the default (empty) hook, the README's chain,
\* a table with a duplicate, a self loop and a cycle, and one that registers the
\* initial phase as a target.
SetupPrograms ==
    { <<>>,
      << <<"lobby", "play">>, <<"play", "score">> >>,
      << <<"lobby", "play">>, <<"lobby", "play">>, <<"play", "play">>,
         <<"play", "lobby">> >>,
      << <<"lobby", INITIAL_PHASE>>, <<INITIAL_PHASE, "score">> >> }

\* The scopes of the model: the phases that have a method <prefix><phase>.
HandlerConfigs == { NamedPhases, Phases \ {"play"} }

----------------------------------------------------------------------------
\* Records of calls.

NoNote == [adds |-> <<>>, phase |-> Undefined]

Notifications == [adds : AddsKinds, phase : PhaseValues]

\* The effect of a call on the instance: the new local phase, the number of
\* assignments to this.localPhase, the phase methods invoked with their
\* isInitialPhase argument, the error thrown, the number of _validateTransition
\* calls.
Effect(lp, advanced, calls, error, validated) ==
    [localPhase |-> lp, advanced |-> advanced, calls |-> calls, error |-> error,
     validated |-> validated]

\* op: the method called; phaseArg: its phase argument; note: the notification
\* passed to onStateChange; from: localPhase when it was called; eff: its effect;
\* reads: the number of getState calls and seen: the state.phase read; writes:
\* the deltas submitted.
Call(op, phaseArg, note, from, eff, reads, seen, writes) ==
    [op |-> op, phaseArg |-> phaseArg, note |-> note, from |-> from,
     advanced |-> eff.advanced, calls |-> eff.calls, error |-> eff.error,
     validated |-> eff.validated, reads |-> reads, seen |-> seen, writes |-> writes]

NoEffect(lp) == Effect(lp, 0, <<>>, NoError, 0)

NoCall == Call("none", Undefined, NoNote, INITIAL_PHASE, NoEffect(INITIAL_PHASE),
               0, Undefined, <<>>)

----------------------------------------------------------------------------
\* _nextLocalPhase that returns silently when the phase method is missing.
nextLocalPhase_silent(sc, phase, isInitialPhase) ==
    IF phase \notin sc
    THEN Effect(phase, 1, <<>>, NoError, 0)
    ELSE Effect(phase, 1, << [phase |-> phase, first |-> isInitialPhase] >>, NoError, 0)

\* _nextLocalPhase that invokes the phase method but resets the tracker to the
\* initial phase instead of recording the phase.
nextLocalPhase_keepPhase(sc, phase, isInitialPhase) ==
    IF phase \notin sc
    THEN Effect(INITIAL_PHASE, 0, <<>>, ErrUndefinedPhaseFunction, 0)
    ELSE Effect(INITIAL_PHASE, 0, << [phase |-> phase, first |-> isInitialPhase] >>,
                NoError, 0)

\* _nextLocalPhase that looks the phase method up first and throws without
\* recording the phase, leaving a tracker that shows no phase in progress.
nextLocalPhase_lookupFirst(sc, phase, isInitialPhase) ==
    IF phase \notin sc
    THEN Effect(INITIAL_PHASE, 0, <<>>, ErrUndefinedPhaseFunction, 0)
    ELSE Effect(phase, 1, << [phase |-> phase, first |-> isInitialPhase] >>, NoError, 0)

\* _nextLocalPhase(state, isInitialPhase) with state.phase = phase.
nextLocalPhase(sc, phase, isInitialPhase) ==
    IF phase \notin sc
    THEN Effect(phase, 1, <<>>, ErrUndefinedPhaseFunction, 0)
    ELSE Effect(phase, 1, << [phase |-> phase, first |-> isInitialPhase] >>, NoError, 0)

\* A scan that takes any added key for the phase key.
HasPhaseKey_anyKey(adds, i) == i <= Len(adds)

\* The scan of onStateChange over adds for the phase key, from index i.
RECURSIVE HasPhaseKey(_, _)
HasPhaseKey(adds, i) ==
    IF i > Len(adds) THEN FALSE
    ELSE IF adds[i] = phaseKey THEN TRUE
    ELSE HasPhaseKey(adds, i + 1)

\* state.phase after the normalisation of onStateChange.
NormalizePhase(p) ==
    IF p = Undefined \/ p = EmptyString THEN INITIAL_PHASE ELSE p

\* onStateChange that advances without consulting _validateTransition.
onStateChange_noValidation(T, sc, lp, note) ==
    IF ~HasPhaseKey(note.adds, 1)
    THEN NoEffect(lp)
    ELSE nextLocalPhase(sc, NormalizePhase(note.phase), lp = INITIAL_PHASE)

\* onStateChange that computes isInitialPhase from the phase it advances to.
onStateChange_lateFlag(T, sc, lp, note) ==
    IF ~HasPhaseKey(note.adds, 1)
    THEN NoEffect(lp)
    ELSE LET cand == NormalizePhase(note.phase)
             v == validateTransition(T, lp, cand)
         IN  IF v = "throw" THEN Effect(lp, 0, <<>>, ErrTypeError, 1)
             ELSE IF v = "true"
             THEN LET e == nextLocalPhase(sc, cand, cand = INITIAL_PHASE)
                  IN  Effect(e.localPhase, e.advanced, e.calls, e.error, 1)
             ELSE Effect(lp, 0, <<>>, NoError, 1)

\* onStateChange(adds, removes, state, metaData)
onStateChange(T, sc, lp, note) ==
    IF ~HasPhaseKey(note.adds, 1)
    THEN NoEffect(lp)
    ELSE LET cand == NormalizePhase(note.phase)
             v == validateTransition(T, lp, cand)
         IN  IF v = "throw" THEN Effect(lp, 0, <<>>, ErrTypeError, 1)
             ELSE IF v = "true"
             THEN LET e == nextLocalPhase(sc, cand, lp = INITIAL_PHASE)
                  IN  Effect(e.localPhase, e.advanced, e.calls, e.error, 1)
             ELSE Effect(lp, 0, <<>>, NoError, 1)

\* The delta nextPhase(phase, adds, removes) submits: adds.phase = phase.
PhaseDelta(phase, withOther) ==
    [adds |-> IF withOther THEN <<OtherKey, phaseKey>> ELSE <<phaseKey>>,
     phase |-> phase]

\* nextPhase that also sets the caller's local phase.
nextPhase_local(lp, phase, withOther) ==
    [eff |-> Effect(phase, 1, <<>>, NoError, 0),
     writes |-> << PhaseDelta(phase, withOther) >>]

\* nextPhase(phase, adds, removes): the effect on the instance and the deltas
\* submitted.
nextPhase(lp, phase, withOther) ==
    [eff |-> NoEffect(lp), writes |-> << PhaseDelta(phase, withOther) >>]

\* inProgress of begin.
InProgress(statePhase) ==
    statePhase \notin {Undefined, EmptyString} /\ statePhase # INITIAL_PHASE

\* begin that passes "the tracker is at the initial phase" as isInitialPhase.
begin_flag(sc, lp, firstPhase, statePhase) ==
    IF firstPhase = Undefined
    THEN [eff |-> Effect(lp, 0, <<>>, ErrFirstPhase, 0), reads |-> 0, writes |-> <<>>]
    ELSE IF InProgress(statePhase)
    THEN [eff |-> nextLocalPhase(sc, statePhase, lp = INITIAL_PHASE), reads |-> 1,
          writes |-> <<>>]
    ELSE LET n == nextPhase(lp, firstPhase, FALSE)
         IN  [eff |-> n.eff, reads |-> 1, writes |-> n.writes]

\* begin that checks firstPhase only on the path that uses it.
begin_lateCheck(sc, lp, firstPhase, statePhase) ==
    IF InProgress(statePhase)
    THEN [eff |-> nextLocalPhase(sc, statePhase, TRUE), reads |-> 1, writes |-> <<>>]
    ELSE IF firstPhase = Undefined
    THEN [eff |-> Effect(lp, 0, <<>>, ErrFirstPhase, 0), reads |-> 1, writes |-> <<>>]
    ELSE LET n == nextPhase(lp, firstPhase, FALSE)
         IN  [eff |-> n.eff, reads |-> 1, writes |-> n.writes]

\* begin(firstPhase), reading statePhase from getState(): the effect on the
\* instance, the number of getState calls and the deltas submitted.
begin(sc, lp, firstPhase, statePhase) ==
    IF firstPhase = Undefined
    THEN [eff |-> Effect(lp, 0, <<>>, ErrFirstPhase, 0), reads |-> 0, writes |-> <<>>]
    ELSE IF InProgress(statePhase)
    THEN [eff |-> nextLocalPhase(sc, statePhase, TRUE), reads |-> 1, writes |-> <<>>]
    ELSE LET n == nextPhase(lp, firstPhase, FALSE)
         IN  [eff |-> n.eff, reads |-> 1, writes |-> n.writes]

----------------------------------------------------------------------------
\* The transport.

Procs == DOMAIN localPhase

\* The shared phase after a delta.
ApplyDelta(sh, d) ==
    IF \E i \in 1..Len(d.adds) : d.adds[i] = phaseKey THEN d.phase
    ELSE sh

\* Deltas written by code other than the modelled instances.
EnvDeltas ==
    { PhaseDelta(v, FALSE) : v \in NamedPhases \cup {EmptyString, INITIAL_PHASE} }
    \cup { [adds |-> <<OtherKey>>, phase |-> Undefined] }

\* submitDelta(d) on a transport in state tr = [shared, inbox]: the transport
\* applies d to the shared state and puts a notification in flight to every
\* registered listener.
submitDelta(tr, d) ==
    LET sh == ApplyDelta(tr.shared, d)
    IN  [shared |-> sh,
         inbox |-> [p \in Procs |->
                      IF listeners[p] > 0
                      THEN tr.inbox[p] (+) SetToBag({[adds |-> d.adds, phase |-> sh]})
                      ELSE tr.inbox[p]]]

RECURSIVE SubmitAll(_, _)
SubmitAll(tr, writes) ==
    IF writes = <<>> THEN tr
    ELSE SubmitAll(submitDelta(tr, Head(writes)), Tail(writes))

\* The notifications the transport holds in flight to one participant.
InboxCap == IF Cardinality(Procs) > 1 THEN MaxRaceInbox ELSE MaxInbox

\* The transport takes the deltas a call submitted, in order.
Submit(writes) ==
    LET tr == SubmitAll([shared |-> shared, inbox |-> inbox], writes)
    IN  /\ \A p \in Procs : BagCardinality(tr.inbox[p]) <= InboxCap
        /\ shared' = tr.shared
        /\ inbox' = tr.inbox

\* The notification a delta causes when no other write follows it.
NoteOf(d) == [adds |-> d.adds, phase |-> d.phase]

NoRun == [step |-> 0, first |-> Undefined, next |-> Undefined, note |-> NoNote,
          log |-> <<>>, errors |-> <<>>]

\* The run of a participant after the call rec: step 1 is begin(first) on a fresh
\* session by an instance at the initial phase, step 2 the notification of its
\* write, step 3 nextPhase(next), step 4 the notification of that write, step 5
\* the same notification again; log and errors collect the phase methods invoked
\* and the errors thrown by the notifications.
RunAfter(r, rec) ==
    IF /\ rec.op = "begin"
       /\ rec.from = INITIAL_PHASE
       /\ rec.writes # <<>>
    THEN [NoRun EXCEPT !.step = 1, !.first = rec.phaseArg,
                       !.note = NoteOf(rec.writes[1])]
    ELSE IF r.step \in {1, 3, 4} /\ rec.op = "onStateChange" /\ rec.note = r.note
    THEN [r EXCEPT !.step = @ + 1, !.log = @ \o rec.calls,
                   !.errors = @ \o << rec.error >>]
    ELSE IF r.step = 2 /\ rec.op = "nextPhase"
    THEN [r EXCEPT !.step = 3, !.next = rec.phaseArg,
                   !.note = NoteOf(rec.writes[1])]
    ELSE NoRun

NoRace == [on |-> FALSE, P |-> Undefined, Q |-> Undefined, writers |-> {},
           count |-> [q \in Procs |-> 0]]

\* The race after the call rec of participant p. A race starts with a
\* nextPhase(Q) call made when every participant listens, all trackers hold the
\* same phase P and no notification is in flight; it goes on with the
\* nextPhase(Q) calls of further participants whose tracker is still at P; any
\* other write, and a fast-forward, ends it. count[q] is the number of
\* invocations of the handler of Q by q since the race started.
RaceAfter(p, rec) ==
    IF Cardinality(Procs) < 2 THEN race
    ELSE IF rec.op = "nextPhase"
    THEN IF /\ \A q \in Procs : inbox[q] = EmptyBag /\ listeners[q] > 0
            /\ \A q \in Procs : localPhase[q] = localPhase[p]
         THEN [NoRace EXCEPT !.on = TRUE, !.P = localPhase[p], !.Q = rec.phaseArg,
                             !.writers = {p}]
         ELSE IF /\ race.on
                 /\ rec.phaseArg = race.Q
                 /\ rec.from = race.P
                 /\ p \notin race.writers
         THEN [race EXCEPT !.writers = @ \cup {p}]
         ELSE NoRace
    ELSE IF rec.writes # <<>> \/ (rec.op = "begin" /\ rec.advanced = 1)
    THEN NoRace
    ELSE IF race.on /\ rec.calls # <<>> /\ rec.calls[1].phase = race.Q
    THEN [race EXCEPT !.count[p] = @ + 1]
    ELSE race

Record(p, rec) ==
    /\ race' = RaceAfter(p, rec)
    /\ last' = [last EXCEPT ![p] = rec]
    /\ prev' = [prev EXCEPT ![p] =
                  IF \/ /\ rec.op = "onStateChange"
                        /\ last[p].op = "onStateChange"
                        /\ rec.note = last[p].note
                     \/ /\ rec.op = "onStateChange"
                        /\ last[p].op = "begin"
                        /\ last[p].advanced = 1
                        /\ rec.note.phase = last[p].seen
                     \/ /\ rec.op = "onApiReady"
                        /\ last[p].op = "onApiReady"
                  THEN last[p]
                  ELSE NoCall]
    /\ fastForwarded' = [fastForwarded EXCEPT ![p] =
                       IF rec.advanced = 1 THEN rec.op = "begin" ELSE @]
    /\ run' = [q \in Procs |->
                 IF q = p THEN RunAfter(run[p], rec)
                 ELSE IF rec.writes # <<>> THEN NoRun
                 ELSE run[q]]

\* Number of entries of a transition table.
RECURSIVE TableSize(_)
TableSize(T) ==
    IF DOMAIN T = {} THEN 0
    ELSE LET k == CHOOSE x \in DOMAIN T : TRUE
         IN  Len(T[k]) + TableSize([x \in DOMAIN T \ {k} |-> T[x]])

ProgPairs(prog) == { prog[i] : i \in 1..Len(prog) }

\* The pairs a call addTransition(from, to) registers, its recursion included.
CallPairs(from, to) ==
    IF from # INITIAL_PHASE THEN { <<from, to>>, <<INITIAL_PHASE, from>> }
    ELSE { <<from, to>> }

----------------------------------------------------------------------------
\* Actions.

\* onApiReady that does not consult _setupComplete.
OnApiReady_everyTime(p) ==
    \E prog \in SetupPrograms :
        /\ setupComplete' = [setupComplete EXCEPT ![p] = TRUE]
        /\ listeners' = [listeners EXCEPT ![p] = @ + 1]
        /\ setupCalls' = [setupCalls EXCEPT ![p] = @ + 1]
        /\ transitions' = [transitions EXCEPT ![p] = RunSetup(@, prog)]
        /\ registered' = [registered EXCEPT ![p] =
               @ \cup UNION { CallPairs(pr[1], pr[2]) : pr \in ProgPairs(prog) }]
        /\ Record(p, Call("onApiReady", Undefined, NoNote, localPhase[p],
                          NoEffect(localPhase[p]), 0, Undefined, <<>>))
        /\ UNCHANGED <<localPhase, scope, shared, inbox>>

\* onApiReady, with the application's setup() hook running prog.
OnApiReady(p) ==
    \E prog \in SetupPrograms :
        /\ IF ~setupComplete[p]
           THEN /\ setupComplete' = [setupComplete EXCEPT ![p] = TRUE]
                /\ listeners' = [listeners EXCEPT ![p] = @ + 1]
                /\ setupCalls' = [setupCalls EXCEPT ![p] = @ + 1]
                /\ transitions' = [transitions EXCEPT ![p] = RunSetup(@, prog)]
                /\ registered' = [registered EXCEPT ![p] =
                       @ \cup UNION { CallPairs(pr[1], pr[2]) : pr \in ProgPairs(prog) }]
           ELSE UNCHANGED <<setupComplete, listeners, setupCalls, transitions, registered>>
        /\ Record(p, Call("onApiReady", Undefined, NoNote, localPhase[p],
                          NoEffect(localPhase[p]), 0, Undefined, <<>>))
        /\ UNCHANGED <<localPhase, scope, shared, inbox>>

\* A direct call of addTransition(from, to).
AddTransition(p) ==
    \E from \in Phases, to \in Phases :
        /\ TableSize(transitions[p]) < MaxAdds
        /\ transitions' = [transitions EXCEPT ![p] = addTransition(@, from, to)]
        /\ registered' = [registered EXCEPT ![p] = @ \cup CallPairs(from, to)]
        /\ Record(p, Call("addTransition", Undefined, NoNote, localPhase[p],
                          NoEffect(localPhase[p]), 0, Undefined, <<>>))
        /\ UNCHANGED <<localPhase, setupComplete, listeners, setupCalls, scope,
                       shared, inbox>>

\* begin(firstPhase)
Begin(p) ==
    \E firstPhase \in NamedPhases \cup {Undefined} :
        LET r == begin(scope[p], localPhase[p], firstPhase, shared)
        IN  /\ localPhase' = [localPhase EXCEPT ![p] = r.eff.localPhase]
            /\ Submit(r.writes)
            /\ Record(p, Call("begin", firstPhase, NoNote, localPhase[p], r.eff,
                              r.reads, IF r.reads > 0 THEN shared ELSE Undefined,
                              r.writes))
            /\ UNCHANGED <<transitions, setupComplete, listeners, setupCalls, scope,
                           registered>>

\* nextPhase(phase, adds, removes); others holds whether the call may pass adds
\* of its own.
NextPhaseWith(p, others) ==
    \E phase \in NamedPhases, withOther \in others :
        LET r == nextPhase(localPhase[p], phase, withOther)
        IN  /\ localPhase' = [localPhase EXCEPT ![p] = r.eff.localPhase]
            /\ Submit(r.writes)
            /\ Record(p, Call("nextPhase", phase, NoNote, localPhase[p], r.eff,
                              0, Undefined, r.writes))
            /\ UNCHANGED <<transitions, setupComplete, listeners, setupCalls,
                           scope, registered>>

\* nextPhase(phase, adds, removes), with or without adds.
NextPhase(p) == NextPhaseWith(p, BOOLEAN)

\* nextPhase(phase)
NextPhaseOnly(p) == NextPhaseWith(p, {FALSE})

\* A write to the shared state by code other than the modelled instances.
EnvWrite ==
    \E d \in EnvDeltas :
        /\ Submit(<< d >>)
        /\ run' = [q \in Procs |-> NoRun]
        /\ race' = NoRace
        /\ UNCHANGED <<localPhase, transitions, setupComplete, listeners, setupCalls,
                       scope, registered, last, prev, fastForwarded>>

\* The transport invokes the listener of p with a notification in flight to it,
\* out of order; keeps holds whether it may deliver the notification again later.
DeliverWith(p, keeps) ==
    \E note \in BagToSet(inbox[p]), keep \in keeps :
        LET e == onStateChange(transitions[p], scope[p], localPhase[p], note)
        IN  /\ listeners[p] > 0
            /\ localPhase' = [localPhase EXCEPT ![p] = e.localPhase]
            /\ inbox' = [inbox EXCEPT ![p] = IF keep THEN @ ELSE @ (-) SetToBag({note})]
            /\ Record(p, Call("onStateChange", Undefined, note, localPhase[p], e,
                              0, Undefined, <<>>))
            /\ UNCHANGED <<transitions, setupComplete, listeners, setupCalls, scope,
                           shared, registered>>

----------------------------------------------------------------------------
\* Delivery by a transport that may deliver a notification more than once.
Deliver(p) == DeliverWith(p, BOOLEAN)

\* Delivery of every notification exactly once.
DeliverOnce(p) == DeliverWith(p, {FALSE})

----------------------------------------------------------------------------
\* Specifications.

InitFor(P) ==
    /\ localPhase = [p \in P |-> INITIAL_PHASE]
    /\ transitions = [p \in P |-> EmptyTable]
    /\ setupComplete = [p \in P |-> FALSE]
    /\ listeners = [p \in P |-> 0]
    /\ setupCalls = [p \in P |-> 0]
    /\ scope \in [P -> HandlerConfigs]
    /\ shared = Undefined
    /\ inbox = [p \in P |-> EmptyBag]
    /\ registered = [p \in P |-> {}]
    /\ last = [p \in P |-> NoCall]
    /\ prev = [p \in P |-> NoCall]
    /\ fastForwarded = [p \in P |-> FALSE]
    /\ run = [p \in P |-> NoRun]
    /\ race = [on |-> FALSE, P |-> Undefined, Q |-> Undefined, writers |-> {},
               count |-> [p \in P |-> 0]]

\* One instance in a session other code writes to as well.
Init == InitFor({1})

Next ==
    \/ \E p \in Procs : OnApiReady(p)
    \/ \E p \in Procs : Begin(p)
    \/ \E p \in Procs : NextPhase(p)
    \/ \E p \in Procs : Deliver(p)
    \/ EnvWrite

Spec == Init /\ [][Next]_vars

\* Building the transition table alone.
NextTable == \E p \in Procs : AddTransition(p)

SpecTable == Init /\ [][NextTable]_vars

\* The state of a set P of participants that run the same application, with
\* the setup() hook prog, once each has handled its ready callback.
ReadyFor(P, prog) ==
    /\ localPhase = [p \in P |-> INITIAL_PHASE]
    /\ transitions = [p \in P |-> RunSetup(EmptyTable, prog)]
    /\ setupComplete = [p \in P |-> TRUE]
    /\ listeners = [p \in P |-> 1]
    /\ setupCalls = [p \in P |-> 1]
    /\ \E sc \in HandlerConfigs : scope = [p \in P |-> sc]
    /\ shared = Undefined
    /\ inbox = [p \in P |-> EmptyBag]
    /\ registered = [p \in P |->
           UNION { CallPairs(pr[1], pr[2]) : pr \in ProgPairs(prog) }]
    /\ last = [p \in P |-> Call("onApiReady", Undefined, NoNote, INITIAL_PHASE,
                                 NoEffect(INITIAL_PHASE), 0, Undefined, <<>>)]
    /\ prev = [p \in P |-> NoCall]
    /\ fastForwarded = [p \in P |-> FALSE]
    /\ run = [p \in P |-> NoRun]
    /\ race = [on |-> FALSE, P |-> Undefined, Q |-> Undefined, writers |-> {},
               count |-> [p \in P |-> 0]]

\* Two participants of the same application in a session nobody else writes
\* to, each notification delivered once.
InitRace == \E prog \in SetupPrograms : ReadyFor({1, 2}, prog)

NextRace ==
    \/ \E p \in Procs : NextPhaseOnly(p)
    \/ \E p \in Procs : DeliverOnce(p)

SpecRace == InitRace /\ [][NextRace]_vars

\* Nothing is in flight to anybody.
AllDelivered == \A p \in Procs : inbox[p] = EmptyBag

\* The same two participants when a write is made only once the notifications
\* of the write before it have all been delivered.
NextConverge ==
    \/ \E p \in Procs : AllDelivered /\ NextPhaseOnly(p)
    \/ \E p \in Procs : DeliverOnce(p)

\* The transport delivers every notification in flight: a listener with a
\* notification in flight is eventually invoked.
FairDelivery == \A p \in {1, 2} : WF_vars(DeliverOnce(p))

SpecConverge == InitRace /\ [][NextConverge]_vars /\ FairDelivery

----------------------------------------------------------------------------
\* Vocabulary of the properties.

\* The pair (from, to) is in the transition table T.
Registered(T, from, to) ==
    /\ from \in DOMAIN T
    /\ \E i \in 1..Len(T[from]) : T[from][i] = to

\* The changed keys of a notification include the phase key.
CarriesPhaseKey(note) == \E i \in 1..Len(note.adds) : note.adds[i] = "phase"

\* The phase a notification claims: an absent or empty phase entry stands for
\* the initial phase.
Candidate(note) ==
    IF note.phase \in {Undefined, EmptyString} THEN INITIAL_PHASE ELSE note.phase

\* The shared state reports no phase in progress.
Fresh(statePhase) == statePhase \in {Undefined, EmptyString, INITIAL_PHASE}

\* The table T mentions the phase: it has a list, or some list holds it.
InTable(T, phase) ==
    \/ phase \in DOMAIN T
    \/ \E from \in DOMAIN T : Registered(T, from, phase)

----------------------------------------------------------------------------
\* C1 (idempotent delivery), as claimed: when the tracker is at P, (P,Q) is
\* registered, (Q,Q) is not and Q has a handler, delivering the notification
\* "phase key changed, shared phase = Q" twice invokes the handler of Q exactly
\* once, on the first delivery; the second delivery invokes no handler and
\* raises no error, and the tracker is at Q after both.
C1_IdempotentDelivery ==
    \A p \in Procs :
        LET f == prev[p]
            l == last[p]
            Q == l.note.phase
        IN  ( /\ f.op = "onStateChange"
              /\ l.op = "onStateChange"
              /\ l.note = f.note
              /\ CarriesPhaseKey(l.note)
              /\ Q \in Phases
              /\ Registered(transitions[p], f.from, Q)
              /\ ~Registered(transitions[p], Q, Q)
              /\ Q \in scope[p] )
            => /\ Len(f.calls) = 1
               /\ f.calls[1].phase = Q
               /\ f.error = NoError
               /\ l.calls = <<>>
               /\ l.error = NoError
               /\ localPhase[p] = Q

\* C2 (invalid and stale claims are dropped silently), as claimed: once the
\* application has registered its transitions, a notification that carries the
\* phase key with shared phase C, delivered when the tracker is at L and (L,C)
\* is not registered, leaves the tracker at L, invokes no handler and raises no
\* error.
C2_InvalidDroppedSilently ==
    \A p \in Procs :
        LET l == last[p]
        IN  ( /\ l.op = "onStateChange"
              /\ registered[p] # {}
              /\ CarriesPhaseKey(l.note)
              /\ l.note.phase \in Phases
              /\ ~Registered(transitions[p], l.from, l.note.phase) )
            => /\ localPhase[p] = l.from
               /\ l.calls = <<>>
               /\ l.error = NoError

\* C3 (fast-forward): begin(X) with the shared state reporting a phase Y that is
\* non-empty and not the initial sentinel sets the tracker to Y (not X), performs
\* no transition validation and writes nothing to the shared state; the handler
\* of Y is invoked exactly once with isFirstActivation = true (where the scope
\* has no handler of Y, none is invoked and the missing-handler error is
\* raised).
C3_FastForward ==
    \A p \in Procs :
        LET l == last[p]
        IN  ( /\ l.op = "begin"
              /\ l.phaseArg # Undefined
              /\ ~Fresh(l.seen) )
            => /\ localPhase[p] = l.seen
               /\ l.validated = 0
               /\ l.writes = <<>>
               /\ l.seen \in scope[p] =>
                      /\ l.calls = << [phase |-> l.seen, first |-> TRUE] >>
                      /\ l.error = NoError
               /\ l.seen \notin scope[p] =>
                      /\ l.calls = <<>>
                      /\ l.error = ErrUndefinedPhaseFunction

\* A late joiner: begin(X) found the session at Y # X, Y with a handler, and the
\* tracker had already left the initial phase.
C3_Witness ==
    \E p \in Procs :
        LET l == last[p]
        IN  /\ l.op = "begin"
            /\ l.phaseArg \in NamedPhases
            /\ l.seen \in NamedPhases \ {l.phaseArg}
            /\ l.seen \in scope[p]
            /\ l.from \notin {INITIAL_PHASE, l.seen}
            /\ ~Registered(transitions[p], l.from, l.seen)

\* C4 (requesting a global transition is write-only): nextPhase(phase, ...), and
\* begin(X) on a fresh session, submit exactly one delta whose phase entry is the
\* requested phase, and leave the tracker unchanged and every handler uninvoked:
\* the tracker still holds the value it had before the call for as long as no
\* later call is made on the instance.
C4_WriteOnly ==
    \A p \in Procs :
        LET l == last[p]
        IN  ( \/ l.op = "nextPhase"
              \/ /\ l.op = "begin"
                 /\ l.phaseArg # Undefined
                 /\ Fresh(l.seen) )
            => /\ Len(l.writes) = 1
               /\ CarriesPhaseKey(l.writes[1])
               /\ l.writes[1].phase = l.phaseArg
               /\ localPhase[p] = l.from
               /\ l.advanced = 0
               /\ l.calls = <<>>
               /\ l.error = NoError

\* nextPhase requested a registered transition from the tracker's phase to a
\* phase with a handler, and the notification is in flight to the caller.
C4_Witness ==
    \E p \in Procs :
        LET l == last[p]
        IN  /\ l.op = "nextPhase"
            /\ Registered(transitions[p], localPhase[p], l.phaseArg)
            /\ l.phaseArg \in scope[p]
            /\ l.phaseArg # localPhase[p]
            /\ \E n \in BagToSet(inbox[p]) : n.phase = l.phaseArg

\* C5 (transition closure): for every call addTransition(from, to) made with
\* from different from the initial phase, isValidTransition(initialPhase, from)
\* holds.
C5_TransitionClosure ==
    \A p \in Procs :
        \A pair \in registered[p] :
            pair[1] # INITIAL_PHASE
            => validateTransition(transitions[p], INITIAL_PHASE, pair[1]) = "true"

\* Two different sources other than the initial phase have been registered.
C5_Witness ==
    \E p \in Procs :
        \E a \in registered[p], b \in registered[p] :
            /\ a[1] # INITIAL_PHASE
            /\ b[1] # INITIAL_PHASE
            /\ a[1] # b[1]

\* C6 (irrelevant key filtering): a notification whose added keys do not include
\* the phase key performs no transition validation, invokes no handler and
\* leaves the tracker unchanged, whatever the tracker phase and the phase of the
\* accompanying snapshot.
C6_IrrelevantKeyFiltering ==
    \A p \in Procs :
        LET l == last[p]
        IN  ( /\ l.op = "onStateChange"
              /\ ~CarriesPhaseKey(l.note) )
            => /\ l.validated = 0
               /\ l.calls = <<>>
               /\ l.error = NoError
               /\ l.advanced = 0
               /\ localPhase[p] = l.from

\* A notification without the phase key whose snapshot holds a phase the tracker
\* could have advanced to.
C6_Witness ==
    \E p \in Procs :
        LET l == last[p]
        IN  /\ l.op = "onStateChange"
            /\ ~CarriesPhaseKey(l.note)
            /\ l.note.adds # <<>>
            /\ l.note.phase \in scope[p]
            /\ l.note.phase # l.from
            /\ Registered(transitions[p], l.from, l.note.phase)

\* C7 (at-most-once dispatch), as claimed: each notification invokes at most one
\* handler, and it invokes one if and only if it carries the phase key and the
\* transition from the tracker's phase to the candidate is registered, so that
\* every accepted transition accounts for exactly one handler invocation.
C7_AtMostOnceAsClaimed ==
    \A p \in Procs :
        LET l == last[p]
            valid == /\ CarriesPhaseKey(l.note)
                     /\ Registered(transitions[p], l.from, Candidate(l.note))
        IN  l.op = "onStateChange"
            => /\ Len(l.calls) <= 1
               /\ l.calls # <<>> <=> valid
               /\ Len(l.calls) = l.advanced

\* C7 (at-most-once dispatch), amended: each notification invokes at most one
\* handler; the transition is accepted (the tracker is set to the candidate) if
\* and only if the notification carries the phase key and the transition from
\* the tracker's phase to the candidate is registered; a handler, that of the
\* candidate, is invoked if and only if the transition is accepted and the
\* candidate has a handler in the scope.  The handler invocations therefore
\* number the accepted transitions whose target has a handler.
C7_AtMostOnce ==
    \A p \in Procs :
        LET l == last[p]
            valid == /\ CarriesPhaseKey(l.note)
                     /\ Registered(transitions[p], l.from, Candidate(l.note))
        IN  l.op = "onStateChange"
            => /\ Len(l.calls) <= 1
               /\ l.advanced = 1 <=> valid
               /\ l.advanced = 1 => localPhase[p] = Candidate(l.note)
               /\ l.calls # <<>> <=> (valid /\ Candidate(l.note) \in scope[p])
               /\ l.calls # <<>> => l.calls[1].phase = Candidate(l.note)

\* A notification advanced the tracker between two named phases and invoked the
\* handler of the new one.
C7_Witness ==
    \E p \in Procs :
        LET l == last[p]
        IN  /\ l.op = "onStateChange"
            /\ l.from \in NamedPhases
            /\ localPhase[p] \in NamedPhases \ {l.from}
            /\ Len(l.calls) = 1
            /\ l.note.adds = <<OtherKey, phaseKey>>

\* C8 (the local phase advances along valid transitions only), as claimed: every
\* step that changes the tracker from P to a registered phase Q, the
\* fast-forward step of begin included, has Q in the list registered for P.
C8_ValidAdvanceAsClaimed ==
    \A p \in Procs :
        LET l == last[p]
        IN  ( /\ l.op \in {"onStateChange", "begin"}
              /\ localPhase[p] # l.from
              /\ \E pair \in registered[p] : localPhase[p] \in {pair[1], pair[2]} )
            => Registered(transitions[p], l.from, localPhase[p])

\* C8, amended: every step of onStateChange that changes the tracker from P to Q
\* has Q in the list registered for P; the fast-forward step of begin sets the
\* tracker to the phase the shared state reports, without validation; no other
\* operation changes the tracker.
C8_ValidAdvance ==
    \A p \in Procs :
        LET l == last[p]
        IN  /\ l.advanced = 0 => localPhase[p] = l.from
            /\ l.advanced = 1 => l.op \in {"onStateChange", "begin"}
            /\ (l.op = "onStateChange" /\ l.advanced = 1)
               => Registered(transitions[p], l.from, localPhase[p])
            /\ (l.op = "begin" /\ l.advanced = 1)
               => /\ localPhase[p] = l.seen
                  /\ ~Fresh(l.seen)
                  /\ l.validated = 0

\* A notification moved the tracker from a named phase to another phase.
C8_Witness ==
    \E p \in Procs :
        LET l == last[p]
        IN  /\ l.op = "onStateChange"
            /\ l.advanced = 1
            /\ l.from \in NamedPhases
            /\ localPhase[p] # l.from
            /\ Cardinality(DOMAIN transitions[p]) > 2

C11_FreshStartAsClaimed ==
    \A p \in Procs :
        ( /\ run[p].step = 2
          /\ run[p].first \in scope[p]
          /\ registered[p] # {} )
        => /\ localPhase[p] = run[p].first
           /\ shared = run[p].first
           /\ run[p].log = << [phase |-> run[p].first, first |-> TRUE] >>

\* C11, amended: the same holds for every firstPhase that has a handler and that
\* the table lists under the initial phase (a phase registered as the source of
\* a transition, or as a target of the initial phase); the shared phase is
\* firstPhase for any firstPhase.
C11_FreshStart ==
    \A p \in Procs :
        /\ run[p].step = 2 => shared = run[p].first
        /\ ( /\ run[p].step = 2
             /\ run[p].first \in scope[p]
             /\ Registered(transitions[p], INITIAL_PHASE, run[p].first) )
           => /\ localPhase[p] = run[p].first
              /\ run[p].log = << [phase |-> run[p].first, first |-> TRUE] >>
              /\ run[p].errors = << NoError >>

\* begin("lobby") on a fresh session and the notification of its write have
\* been handled by an instance that registered (lobby, play).
C11_Witness ==
    \E p \in Procs :
        /\ run[p].step = 2
        /\ run[p].first = "lobby"
        /\ "lobby" \in scope[p]
        /\ <<"lobby", "play">> \in registered[p]
        /\ last[p].op = "onStateChange"
        /\ last[p].calls # <<>>

\* C12 (end-to-end scenario): an instance whose setup registered exactly
\* (lobby, play) and (play, score) and that has a handler for every phase calls
\* begin("lobby") on a fresh session, receives the notification of that write,
\* calls nextPhase("play"), receives the notification of that write and then
\* the same notification again, with no other write in between. The lobby
\* handler has run once (first activation), then the play handler once, the
\* last notification invoked nothing and raised no error, and the tracker is at
\* play, which is also the shared phase.
C12_Scenario ==
    \A p \in Procs :
        ( /\ run[p].step = 5
          /\ run[p].first = "lobby"
          /\ run[p].next = "play"
          /\ registered[p] = CallPairs("lobby", "play") \cup CallPairs("play", "score")
          /\ NamedPhases \subseteq scope[p] )
        => /\ run[p].log = << [phase |-> "lobby", first |-> TRUE],
                              [phase |-> "play", first |-> FALSE] >>
           /\ run[p].errors = << NoError, NoError, NoError >>
           /\ last[p].calls = <<>>
           /\ last[p].advanced = 0
           /\ localPhase[p] = "play"
           /\ shared = "play"

\* The scenario of C12 has run to its fifth step on the README's table.
C12_Witness ==
    \E p \in Procs :
        /\ run[p].step = 5
        /\ run[p].first = "lobby"
        /\ run[p].next = "play"
        /\ registered[p] = CallPairs("lobby", "play") \cup CallPairs("play", "score")
        /\ NamedPhases \subseteq scope[p]
        /\ last[p].op = "onStateChange"
        /\ prev[p].op = "onStateChange"
        /\ prev[p].note = last[p].note

\* C13 (unregistered source): when _validateTransition is asked about a source
\* phase that has no list in the table, here a phase the setup registered only
\* as a target, it returns false without a fault: the notification raises no
\* error and is dropped.
C13_UnregisteredSourceIsInvalid ==
    \A p \in Procs :
        LET l == last[p]
        IN  ( /\ l.op = "onStateChange"
              /\ l.validated = 1
              /\ l.from \notin DOMAIN transitions[p]
              /\ \E pair \in registered[p] : pair[2] = l.from )
            => /\ l.error = NoError
               /\ l.advanced = 0
               /\ l.calls = <<>>
               /\ localPhase[p] = l.from

\* C14 (one-shot setup): however many ready callbacks an instance has
\* received, the setup hook has run exactly once and exactly one state-change
\* listener is registered as soon as the first callback has been handled, and
\* none before; the table is the one that single run of the hook built, so
\* later callbacks have changed nothing.
C14_OneShotSetup ==
    \A p \in Procs :
        /\ setupCalls[p] = IF setupComplete[p] THEN 1 ELSE 0
        /\ listeners[p] = IF setupComplete[p] THEN 1 ELSE 0
        /\ last[p].op = "onApiReady" => setupComplete[p]
        /\ setupComplete[p] =>
               \E prog \in SetupPrograms :
                   /\ transitions[p] = RunSetup(EmptyTable, prog)
                   /\ registered[p] =
                          UNION { CallPairs(pr[1], pr[2]) : pr \in ProgPairs(prog) }
        /\ ~setupComplete[p] => transitions[p] = EmptyTable

\* A second ready callback in a row has been handled by an instance whose setup
\* registered transitions.
C14_Witness ==
    \E p \in Procs :
        /\ prev[p].op = "onApiReady"
        /\ last[p].op = "onApiReady"
        /\ registered[p] # {}

\* C15 (state space), as claimed: after any sequence of begin, nextPhase and
\* onStateChange calls, the tracker of an instance whose setup registered
\* transitions holds the initial phase or a phase of its table.
C15_StateSpaceAsClaimed ==
    \A p \in Procs :
        registered[p] # {} =>
            \/ localPhase[p] = INITIAL_PHASE
            \/ InTable(transitions[p], localPhase[p])

\* C15, amended: a tracker that was last assigned by onStateChange, or never,
\* holds the initial phase or a phase that some list of the table holds; a
\* tracker last assigned by the fast-forward of begin holds the phase in
\* progress that begin read from the shared state, registered or not.
C15_StateSpace ==
    \A p \in Procs :
        /\ ~fastForwarded[p] =>
               \/ localPhase[p] = INITIAL_PHASE
               \/ \E from \in DOMAIN transitions[p] :
                      Registered(transitions[p], from, localPhase[p])
        /\ fastForwarded[p] => localPhase[p] \in NamedPhases
        /\ (last[p].op = "begin" /\ last[p].advanced = 1) =>
               /\ fastForwarded[p]
               /\ localPhase[p] = last[p].seen

\* A notification has advanced the tracker from one registered phase to
\* another.
C15_Witness ==
    \E p \in Procs :
        /\ ~fastForwarded[p]
        /\ last[p].op = "onStateChange"
        /\ last[p].advanced = 1
        /\ last[p].from \in NamedPhases
        /\ localPhase[p] \in NamedPhases \ {last[p].from}

\* C16 (first-activation flag), as claimed: in every handler invocation, by
\* onStateChange or by the fast-forward of begin, isInitialPhase is true exactly
\* when the tracker held the initial phase immediately before the advance.
C16_FirstActivationFlagAsClaimed ==
    \A p \in Procs :
        LET l == last[p]
        IN  (l.op \in {"onStateChange", "begin"} /\ l.calls # <<>>)
            => (l.calls[1].first <=> l.from = INITIAL_PHASE)

\* C16, amended: in a handler invocation by onStateChange isInitialPhase is true
\* exactly when the tracker held the initial phase immediately before the
\* advance; in one by the fast-forward of begin it is true whatever the
\* tracker held. Either call invokes at most one handler.
C16_FirstActivationFlag ==
    \A p \in Procs :
        LET l == last[p]
        IN  /\ (l.op = "onStateChange" /\ l.calls # <<>>)
               => /\ Len(l.calls) = 1
                  /\ l.calls[1].first <=> l.from = INITIAL_PHASE
            /\ (l.op = "begin" /\ l.calls # <<>>)
               => /\ Len(l.calls) = 1
                  /\ l.calls[1].first

\* A notification invoked a handler with the tracker beyond the initial phase,
\* and so with isInitialPhase false.
C16_Witness ==
    \E p \in Procs :
        LET l == last[p]
        IN  /\ l.op = "onStateChange"
            /\ l.calls # <<>>
            /\ l.from \in NamedPhases
            /\ ~l.calls[1].first

\* The results of _validateTransition on every pair of phases.
ValidationResults(T) ==
    [pair \in Phases \X Phases |-> validateTransition(T, pair[1], pair[2])]

\* C17 (validation is set membership): for a source that has a list,
\* _validateTransition(from, to) is true exactly when some addTransition call
\* put to into the list of from, and false otherwise, whatever the order of the
\* calls and however often a pair was registered.
C17_SetMembership ==
    \A p \in Procs :
        \A from \in DOMAIN transitions[p], to \in Phases :
            validateTransition(transitions[p], from, to) =
                IF <<from, to>> \in registered[p] THEN "true" ELSE "false"

\* C17, second part: an addTransition call that registers only pairs that were
\* registered before changes no result of _validateTransition.
C17_ReRegistering ==
    [][ \A p \in Procs :
            (registered'[p] = registered[p] /\ transitions'[p] # transitions[p])
            => ValidationResults(transitions'[p]) = ValidationResults(transitions[p])
      ]_vars

\* C17: both parts.
C17_ValidationIsSetMembership == []C17_SetMembership /\ C17_ReRegistering

\* A pair has been registered twice, after another target of the same source:
\* the list holds a duplicate that is not its first entry.
C17_Witness ==
    \E p \in Procs :
        \E from \in DOMAIN transitions[p] :
            LET list == transitions[p][from]
            IN  \E i \in 1..Len(list), j \in 1..Len(list) :
                    /\ 1 < i
                    /\ i < j
                    /\ list[i] = list[j]
                    /\ list[1] # list[i]

\* The race is over a transition every participant has registered, to a phase
\* every participant has a handler for.
RaceIsValid ==
    /\ race.on
    /\ \A p \in Procs :
           /\ Registered(transitions[p], race.P, race.Q)
           /\ race.Q \in scope[p]

\* C18 (racing writers), as claimed: all participants share one table and are at
\* P; two of them call nextPhase(Q) before seeing the other's write, (P, Q) being
\* registered and Q having a handler; once every participant has received one
\* notification per write, in any interleaving, each has invoked the handler of
\* Q exactly once and its tracker is at Q.
C18_RacingWritersAsClaimed ==
    ( /\ RaceIsValid
      /\ Cardinality(race.writers) >= 2
      /\ AllDelivered )
    => \A p \in Procs :
           /\ race.count[p] = 1
           /\ localPhase[p] = race.Q

\* C18, amended: the same, provided (Q, Q) is not itself registered.
C18_RacingWriters ==
    ( /\ RaceIsValid
      /\ Cardinality(race.writers) >= 2
      /\ AllDelivered
      /\ \A p \in Procs : ~Registered(transitions[p], race.Q, race.Q) )
    => \A p \in Procs :
           /\ race.count[p] = 1
           /\ localPhase[p] = race.Q

\* Both participants, at a phase other than the initial one, wrote the same
\* next phase, and every notification of the two writes has been delivered.
C18_Witness ==
    /\ RaceIsValid
    /\ Cardinality(race.writers) >= 2
    /\ AllDelivered
    /\ race.P \in NamedPhases
    /\ \A p \in Procs : ~Registered(transitions[p], race.Q, race.Q)

\* One participant alone has written race.Q since all trackers were at race.P.
SingleWriter ==
    /\ RaceIsValid
    /\ Cardinality(race.writers) = 1

\* Every tracker is at the phase written.
Converged == \A p \in Procs : localPhase[p] = race.Q

\* C19 (convergence under fair delivery): all participants are at P, (P, Q) is
\* registered and Q has a handler, and exactly one participant calls
\* nextPhase(Q), no other write being made before its notifications are
\* delivered. If the transport delivers every notification in flight, then
\* eventually every tracker equals Q with nothing left in flight.
C19_Convergence == SingleWriter ~> (SingleWriter /\ Converged /\ AllDelivered)

\* After the write of a single participant every tracker, the writer's included,
\* has moved from a phase other than the initial one to the phase written.
C19_Witness ==
    /\ SingleWriter
    /\ race.P \in NamedPhases
    /\ race.P # race.Q
    /\ AllDelivered
    /\ Converged

\* The call before the last one advanced to the phase of the last notification
\* and threw for its missing handler: it was the first delivery of the same
\* notification, or a begin that fast-forwarded to that phase.
RedeliveredAfterMissingHandler(p) ==
    /\ last[p].op = "onStateChange"
    /\ CarriesPhaseKey(last[p].note)
    /\ prev[p].op \in {"onStateChange", "begin"}
    /\ prev[p].error = ErrUndefinedPhaseFunction

\* C20 (tracker advanced before handler resolution), as claimed: when an
\* accepted transition or a fast-forward targets a phase Q without a handler,
\* the tracker equals Q when the error is raised, so a later delivery of the
\* same phase-Q notification is validated against Q and the missing-handler
\* dispatch is not retried.
C20_AdvancedBeforeLookupAsClaimed ==
    \A p \in Procs :
        /\ last[p].error = ErrUndefinedPhaseFunction
           => (last[p].advanced = 1 /\ localPhase[p] \notin scope[p])
        /\ RedeliveredAfterMissingHandler(p)
           => /\ prev[p].advanced = 1
              /\ last[p].from = Candidate(last[p].note)
              /\ last[p].validated = 1
              /\ last[p].calls = <<>>
              /\ last[p].error # ErrUndefinedPhaseFunction

\* C20, amended: the tracker equals Q when the error is raised, and a later
\* delivery of the same phase-Q notification is validated against Q; the
\* missing-handler dispatch is retried, and throws again, exactly when (Q, Q) is
\* itself registered.
C20_AdvancedBeforeLookup ==
    \A p \in Procs :
        /\ last[p].error = ErrUndefinedPhaseFunction
           => (last[p].advanced = 1 /\ localPhase[p] \notin scope[p])
        /\ RedeliveredAfterMissingHandler(p)
           => LET Q == Candidate(last[p].note)
              IN  /\ prev[p].advanced = 1
                  /\ last[p].from = Q
                  /\ localPhase[p] = Q
                  /\ last[p].validated = 1
                  /\ last[p].calls = <<>>
                  /\ last[p].error = ErrUndefinedPhaseFunction
                       <=> Registered(transitions[p], Q, Q)

\* A notification that advanced the tracker from another phase to a phase
\* without a handler has been delivered again and dropped without an error.
C20_Witness ==
    \E p \in Procs :
        /\ RedeliveredAfterMissingHandler(p)
        /\ prev[p].op = "onStateChange"
        /\ prev[p].from # last[p].from
        /\ last[p].error = NoError

====
